---- MODULE Spec2Model ----
(***************************************************************************)
(* Model of src/app.py: a daily job that searches a mailbox, downloads the *)
(* PDF attachments of the matching messages into the scratch directory     *)
(* invoices/, uploads each file to a Drive folder and removes the local    *)
(* copy.  The program is single threaded; pc is the position of its one    *)
(* thread of control.  Every call into the Google client libraries or the  *)
(* file system either returns or raises, and what it returns is chosen by  *)
(* the environment.                                                        *)
(*                                                                         *)
(* Strings are sequences of one-character strings, bytes are sequences of  *)
(* numbers.                                                                *)
(***************************************************************************)
EXTENDS Integers, Sequences, FiniteSets, TLC

(* ---------------------------- bounds ----------------------------------- *)

\* the largest number of messages a search returns
MaxMessages == 3
\* the largest number of top-level parts of a message
MaxParts == 2

(* ---------------------------- strings ---------------------------------- *)

None == "None"

\* str.lower() on the characters that occur in the file names below
Lower(s) ==
    [k \in 1..Len(s) |->
        CASE s[k] = "B" -> "b"
          [] s[k] = "P" -> "p"
          [] s[k] = "D" -> "d"
          [] s[k] = "F" -> "f"
          [] OTHER -> s[k]]

\* str.endswith(suffix)
EndsWith(s, suffix) ==
    /\ Len(s) >= Len(suffix)
    /\ SubSeq(s, Len(s) - Len(suffix) + 1, Len(s)) = suffix

DotPdf == <<".", "p", "d", "f">>

\* the filter without lower(): filename.endswith('.pdf')
IsPdfCaseSensitive(filename) ==
    /\ filename # <<>>
    /\ EndsWith(filename, DotPdf)

\* the filter as a substring test: '.pdf' in filename.lower()
IsPdfAnywhere(filename) ==
    /\ filename # <<>>
    /\ \E k \in 1..Len(filename) :
          /\ k + 3 <= Len(filename)
          /\ SubSeq(Lower(filename), k, k + 3) = DotPdf

\* line 87: part.get('filename') and part['filename'].lower().endswith('.pdf')
IsPdf(filename) ==
    /\ filename # <<>>
    /\ EndsWith(Lower(filename), DotPdf)

(* ---------------------------- base64 ----------------------------------- *)

\* the value of a character of the URL-safe base64 alphabet
B64Value(c) ==
    CASE c = "A" -> 0
      [] c = "Q" -> 16
      [] c = "g" -> 32
      [] c = "-" -> 62
      [] c = "_" -> 63
      [] OTHER -> 0

\* one group of four characters: three bytes, fewer when padded with "="
DecodeQuad(q) ==
    LET n == B64Value(q[1]) * 262144 + B64Value(q[2]) * 4096
             + (IF q[3] = "=" THEN 0 ELSE B64Value(q[3]) * 64)
             + (IF q[4] = "=" THEN 0 ELSE B64Value(q[4]))
        b1 == n \div 65536
        b2 == (n \div 256) % 256
        b3 == n % 256
    IN  IF q[3] = "=" THEN <<b1>>
        ELSE IF q[4] = "=" THEN <<b1, b2>>
        ELSE <<b1, b2, b3>>

\* base64.urlsafe_b64decode raises binascii.Error ("Incorrect padding") when
\* the length is not a multiple of four
CanDecode(data) == Len(data) % 4 = 0

RECURSIVE urlsafe_b64decode(_)
urlsafe_b64decode(data) ==
    IF Len(data) < 4 THEN <<>>
    ELSE DecodeQuad(SubSeq(data, 1, 4)) \o urlsafe_b64decode(SubSeq(data, 5, Len(data)))

\* the 'data' field of an attachment response: "QQ==" (one byte) and "QQ"
\* (unpadded, which the decoder rejects)
EncodedData ==
    { <<"Q", "Q", "=", "=">>, <<"Q", "Q">> }

(* ---------------------------- messages --------------------------------- *)

\* the part descriptors a message can carry: the filename and the
\* attachmentId of the body (None when body or attachmentId is absent)
PartDescriptors ==
    { [filename |-> <<"a", ".", "p", "d", "f">>, attachmentId |-> "att"],
      [filename |-> <<"B", ".", "P", "D", "F">>, attachmentId |-> "att"],
      [filename |-> <<"a", ".", "p", "d", "f">>, attachmentId |-> None],
      [filename |-> <<"a", ".", "p", "d", "f", "x">>, attachmentId |-> "att"],
      [filename |-> <<>>, attachmentId |-> "att"] }

RECURSIVE SeqsUpTo(_, _)
SeqsUpTo(S, n) ==
    IF n = 0 THEN { <<>> }
    ELSE LET shorter == SeqsUpTo(S, n - 1)
         IN  shorter \cup { Append(s, x) : s \in { t \in shorter : Len(t) = n - 1 }, x \in S }

\* what messages().get() can return: no payload, a payload without parts,
\* or a payload with a list of parts
MessageContents ==
    { [hasPayload |-> FALSE, hasParts |-> FALSE, parts |-> <<>>],
      [hasPayload |-> TRUE, hasParts |-> FALSE, parts |-> <<>>] }
    \cup { [hasPayload |-> TRUE, hasParts |-> TRUE, parts |-> ps] :
              ps \in SeqsUpTo(PartDescriptors, MaxParts) }

(* ---------------------------- state ------------------------------------ *)

VARIABLES
    pc,          \* position of the thread of control
    due,         \* whether the daily 08:00 trigger is pending
    log,         \* log lines written since the job began, or since the current
                 \* message was taken up or left
    disk,        \* the scratch directory invoices/: file name -> bytes
    drive,       \* files created in the Drive folder for the current message
    messages,    \* process_emails: the message ids of the search result
    i,           \* process_emails: how many messages the loop has taken up
    requested,   \* ids passed to messages().get() in this run
    firstRaised, \* the first message of this run for which a fetch raised, 0 if none
    message,     \* process_single_email: the fetched message
    j,           \* process_single_email: how many parts the loop has taken up
    attachment,  \* process_attachment: the attachment response
    file_data,   \* process_attachment: the decoded bytes
    media,       \* upload_to_drive: the MediaFileUpload
    opened,      \* process_attachment: open() created or truncated the file
    fetches,     \* parts of this message whose attachment was requested
    written,     \* parts of this message whose local file was written in full
    uploads,     \* parts of this message for which upload_to_drive was called
    uploaded,    \* process_attachment: how the call of upload_to_drive went
    removed,     \* process_attachment: how the call of os.remove went
    entryDisk,   \* process_attachment: invoices/ as it was when the call began
    raised       \* a fetch of this message or of one of its attachments raised

vars == <<pc, due, log, disk, drive, messages, i, requested, firstRaised, message, j,
          attachment, file_data, media, opened, uploaded, removed, entryDisk,
          fetches, written, uploads, raised>>

NoMessage == [hasPayload |-> FALSE, hasParts |-> FALSE, parts |-> <<>>]

NoAttachment == [hasData |-> FALSE, data |-> <<>>]
NoMedia == [name |-> <<>>, body |-> <<>>]

\* what attachments().get() can return: a response with or without 'data'
AttachmentResponses ==
    { NoAttachment } \cup { [hasData |-> TRUE, data |-> d] : d \in EncodedData }

jobVars == <<messages, i, requested, firstRaised>>
messageVars == <<message, j, fetches, written, uploads, raised>>
attachmentVars == <<attachment, file_data, media, opened, uploaded, removed, entryDisk>>

\* the part the loop of process_single_email is at
part == message.parts[j]

Init ==
    /\ pc = "sleep"
    /\ due = FALSE
    /\ log = <<>>
    /\ disk = <<>>
    /\ drive = <<>>
    /\ messages = <<>>
    /\ i = 0
    /\ requested = <<>>
    /\ firstRaised = 0
    /\ message = NoMessage
    /\ j = 0
    /\ attachment = NoAttachment
    /\ file_data = <<>>
    /\ media = NoMedia
    /\ opened = FALSE
    /\ uploaded = "no"
    /\ removed = "no"
    /\ entryDisk = <<>>
    /\ fetches = <<>>
    /\ written = <<>>
    /\ uploads = <<>>
    /\ raised = FALSE

(* ---------------------------- log lines -------------------------------- *)

Starting == "Starting invoice processing job"
Completed == "Completed invoice processing job"
Uploaded == "uploaded successfully"
ErrEmails == "Error processing emails"
ErrMessage == "Error processing message"
ErrAttachment == "Error processing attachment"
ErrUpload == "Error uploading to Drive"

Errors == {ErrEmails, ErrMessage, ErrAttachment, ErrUpload}

(* ---------------------------- file system ------------------------------ *)

\* the directory after open(path, 'wb') and a write of bytes
WriteFile(d, name, bytes) ==
    [n \in DOMAIN d \cup {name} |-> IF n = name THEN bytes ELSE d[n]]

\* the directory after os.remove(path)
RemoveFile(d, name) == [n \in DOMAIN d \ {name} |-> d[n]]

(* ---------------------------- scheduler -------------------------------- *)

\* line 161: time.sleep(60); the trigger may have become due meanwhile
Sleep ==
    /\ pc = "sleep"
    /\ pc' = "run_pending"
    /\ \E d \in BOOLEAN : due' = (due \/ d)
    /\ UNCHANGED <<log, disk, drive, jobVars, messageVars, attachmentVars>>

\* line 160: schedule.run_pending() calls main when the trigger is due
RunPending ==
    /\ pc = "run_pending"
    /\ IF due
       THEN /\ pc' = "main"
            /\ due' = FALSE
       ELSE /\ pc' = "sleep"
            /\ due' = due
    /\ UNCHANGED <<log, disk, drive, jobVars, messageVars, attachmentVars>>

\* lines 144-147: main logs the start and creates the scratch directory;
\* os.makedirs is outside every try, so its error leaves main
Main ==
    /\ pc = "main"
    /\ log' = <<Starting>>
    /\ \E ok \in BOOLEAN : pc' = IF ok THEN "auth_gmail" ELSE "crashed"
    /\ UNCHANGED <<due, disk, drive, jobVars, messageVars, attachmentVars>>

\* line 152: process_emails has returned
MainCompleted ==
    /\ pc = "emails_return"
    /\ pc' = "completed"
    /\ log' = Append(log, Completed)
    /\ UNCHANGED <<due, disk, drive, jobVars, messageVars, attachmentVars>>

\* main returns to the loop of lines 159-161; its locals are gone
MainReturn ==
    /\ pc = "completed"
    /\ pc' = "sleep"
    /\ log' = <<>>
    /\ drive' = <<>>
    /\ messages' = <<>>
    /\ i' = 0
    /\ requested' = <<>>
    /\ firstRaised' = 0
    /\ UNCHANGED <<due, disk, messageVars, attachmentVars>>

(* ---------------------------- process_emails --------------------------- *)

\* line 42: get_google_service('gmail', 'v1')
AuthGmail ==
    /\ pc = "auth_gmail"
    /\ \E ok \in BOOLEAN : pc' = IF ok THEN "auth_drive" ELSE "emails_except"
    /\ UNCHANGED <<due, log, disk, drive, jobVars, messageVars, attachmentVars>>

\* line 43: get_google_service('drive', 'v3')
AuthDrive ==
    /\ pc = "auth_drive"
    /\ \E ok \in BOOLEAN : pc' = IF ok THEN "list" ELSE "emails_except"
    /\ UNCHANGED <<due, log, disk, drive, jobVars, messageVars, attachmentVars>>

\* lines 65-69: messages().list().execute() and results.get('messages', [])
ListMessages ==
    /\ pc = "list"
    /\ \/ /\ pc' = "emails_except"
          /\ UNCHANGED messages
       \/ /\ pc' = "message_loop"
          /\ \E n \in 0..MaxMessages : messages' = [k \in 1..n |-> k]
    /\ UNCHANGED <<due, log, disk, drive, i, requested, firstRaised, messageVars,
                   attachmentVars>>

\* lines 70-71: the loop over the messages
MessageLoop ==
    /\ pc = "message_loop"
    /\ IF i < Len(messages)
       THEN /\ i' = i + 1
            /\ pc' = "get_message"
            /\ log' = <<>>
            /\ drive' = <<>>
       ELSE /\ i' = i
            /\ pc' = "emails_return"
            /\ UNCHANGED <<log, drive>>
    /\ UNCHANGED <<due, disk, messages, requested, firstRaised, messageVars,
                   attachmentVars>>

\* process_emails without its try: the exception leaves main
EmailsExceptReraises ==
    /\ pc = "emails_except"
    /\ pc' = "crashed"
    /\ UNCHANGED <<due, log, disk, drive, jobVars, messageVars, attachmentVars>>

\* process_emails logging the error and starting over
EmailsExceptRetries ==
    /\ pc = "emails_except"
    /\ pc' = "auth_gmail"
    /\ log' = Append(log, ErrEmails)
    /\ UNCHANGED <<due, disk, drive, jobVars, messageVars, attachmentVars>>

\* lines 73-74: except Exception of process_emails
EmailsExcept ==
    /\ pc = "emails_except"
    /\ pc' = "emails_return"
    /\ log' = Append(log, ErrEmails)
    /\ UNCHANGED <<due, disk, drive, jobVars, messageVars, attachmentVars>>

(* ---------------------------- process_single_email --------------------- *)

\* lines 80-82: messages().get().execute()
GetMessage ==
    /\ pc = "get_message"
    /\ requested' = Append(requested, messages[i])
    /\ \/ /\ pc' = "message_except"
          /\ raised' = TRUE
          /\ UNCHANGED message
       \/ /\ pc' = "part_loop"
          /\ message' \in MessageContents
          /\ UNCHANGED raised
    /\ UNCHANGED <<due, log, disk, drive, messages, i, firstRaised, j, fetches, written,
                   uploads, attachmentVars>>

\* the loop reading message['payload']['parts'] without testing for the keys:
\* a KeyError for a message without payload or parts
PartLoopUnguarded ==
    /\ pc = "part_loop"
    /\ IF ~(message.hasPayload /\ message.hasParts)
       THEN /\ j' = j
            /\ pc' = "message_except"
            /\ entryDisk' = entryDisk
       ELSE IF j < Len(message.parts)
       THEN /\ j' = j + 1
            /\ IF IsPdf(message.parts[j + 1].filename)
               THEN /\ pc' = "process_attachment"
                    /\ entryDisk' = disk
               ELSE /\ pc' = "part_loop"
                    /\ entryDisk' = entryDisk
       ELSE /\ j' = j
            /\ pc' = "message_return"
            /\ entryDisk' = entryDisk
    /\ UNCHANGED <<due, log, disk, drive, jobVars, message, fetches, written, uploads,
                   raised, attachment, file_data, media, opened, uploaded, removed>>

\* lines 85-88: the loop over the top-level parts and the filter on the name
PartLoop ==
    /\ pc = "part_loop"
    /\ IF message.hasPayload /\ message.hasParts /\ j < Len(message.parts)
       THEN /\ j' = j + 1
            /\ IF IsPdf(message.parts[j + 1].filename)
               THEN /\ pc' = "process_attachment"
                    /\ entryDisk' = disk
               ELSE /\ pc' = "part_loop"
                    /\ entryDisk' = entryDisk
       ELSE /\ j' = j
            /\ pc' = "message_return"
            /\ entryDisk' = entryDisk
    /\ UNCHANGED <<due, log, disk, drive, jobVars, message, fetches, written, uploads,
                   raised, attachment, file_data, media, opened, uploaded, removed>>

\* process_single_email without its try: the exception reaches process_emails
MessageExceptReraises ==
    /\ pc = "message_except"
    /\ pc' = "emails_except"
    /\ UNCHANGED <<due, log, disk, drive, jobVars, messageVars, attachmentVars>>

\* lines 90-91: except Exception of process_single_email
MessageExcept ==
    /\ pc = "message_except"
    /\ pc' = "message_return"
    /\ log' = Append(log, ErrMessage)
    /\ UNCHANGED <<due, disk, drive, jobVars, messageVars, attachmentVars>>

\* process_single_email returns to the loop of process_emails
MessageReturn ==
    /\ pc = "message_return"
    /\ pc' = "message_loop"
    /\ firstRaised' = IF raised /\ firstRaised = 0 THEN i ELSE firstRaised
    /\ message' = NoMessage
    /\ j' = 0
    /\ fetches' = <<>>
    /\ written' = <<>>
    /\ uploads' = <<>>
    /\ raised' = FALSE
    /\ log' = <<>>
    /\ drive' = <<>>
    /\ UNCHANGED <<due, disk, messages, i, requested, attachmentVars>>

(* ---------------------------- process_attachment ----------------------- *)

\* lines 96-101: the test for an attachmentId, attachments().get().execute()
\* and the decoding of attachment['data'], which raises KeyError without the
\* key and binascii.Error on data the decoder rejects
FetchAttachment ==
    /\ pc = "process_attachment"
    /\ IF part.attachmentId = None
       THEN /\ pc' = "attachment_return"
            /\ UNCHANGED <<fetches, raised, attachment, file_data>>
       ELSE /\ fetches' = Append(fetches, j)
            /\ \/ /\ pc' = "attachment_except"
                  /\ raised' = TRUE
                  /\ UNCHANGED <<attachment, file_data>>
               \/ /\ attachment' \in AttachmentResponses
                  /\ IF attachment'.hasData /\ CanDecode(attachment'.data)
                     THEN /\ file_data' = urlsafe_b64decode(attachment'.data)
                          /\ pc' = "write"
                     ELSE /\ file_data' = file_data
                          /\ pc' = "attachment_except"
                  /\ UNCHANGED raised
    /\ UNCHANGED <<due, log, disk, drive, jobVars, message, j, written, uploads,
                   media, opened, uploaded, removed, entryDisk>>

\* the write with its error swallowed: the upload follows a failed write
SaveTemporarilyIgnoresError ==
    /\ pc = "write"
    /\ \/ /\ pc' = "attachment_except"
          /\ UNCHANGED <<disk, opened, written>>
       \/ /\ pc' = "upload"
          /\ \E k \in 0..(Len(file_data) - 1) :
                disk' = WriteFile(disk, part.filename, SubSeq(file_data, 1, k))
          /\ opened' = TRUE
          /\ UNCHANGED written
       \/ /\ pc' = "upload"
          /\ disk' = WriteFile(disk, part.filename, file_data)
          /\ opened' = TRUE
          /\ written' = Append(written, j)
    /\ UNCHANGED <<due, log, drive, jobVars, message, j, fetches, uploads, raised,
                   attachment, file_data, media, uploaded, removed, entryDisk>>

\* lines 102-106: open(f"invoices/{filename}", 'wb') and f.write(file_data).
\* open can fail before it creates the file; a failed write leaves the
\* truncated file with a proper prefix of the bytes
SaveTemporarily ==
    /\ pc = "write"
    /\ \/ /\ pc' = "attachment_except"
          /\ UNCHANGED <<disk, opened, written>>
       \/ /\ pc' = "attachment_except"
          /\ \E k \in 0..(Len(file_data) - 1) :
                disk' = WriteFile(disk, part.filename, SubSeq(file_data, 1, k))
          /\ opened' = TRUE
          /\ UNCHANGED written
       \/ /\ pc' = "upload"
          /\ disk' = WriteFile(disk, part.filename, file_data)
          /\ opened' = TRUE
          /\ written' = Append(written, j)
    /\ UNCHANGED <<due, log, drive, jobVars, message, j, fetches, uploads, raised,
                   attachment, file_data, media, uploaded, removed, entryDisk>>

\* the removal made only after a successful upload
CleanUpOnSuccess ==
    /\ pc = "remove"
    /\ \/ /\ uploaded = "ok"
          /\ part.filename \in DOMAIN disk
          /\ disk' = RemoveFile(disk, part.filename)
          /\ removed' = "ok"
          /\ pc' = "attachment_return"
       \/ /\ uploaded = "ok"
          /\ pc' = "attachment_except"
          /\ removed' = "failed"
          /\ UNCHANGED disk
       \/ /\ uploaded # "ok"
          /\ pc' = "attachment_return"
          /\ UNCHANGED <<disk, removed>>
    /\ UNCHANGED <<due, log, drive, jobVars, messageVars, attachment, file_data, media,
                   opened, uploaded, entryDisk>>

\* line 112: os.remove(f"invoices/{filename}")
CleanUp ==
    /\ pc = "remove"
    /\ \/ /\ part.filename \in DOMAIN disk
          /\ disk' = RemoveFile(disk, part.filename)
          /\ removed' = "ok"
          /\ pc' = "attachment_return"
       \/ /\ pc' = "attachment_except"
          /\ removed' = "failed"
          /\ UNCHANGED disk
    /\ UNCHANGED <<due, log, drive, jobVars, messageVars, attachment, file_data, media,
                   opened, uploaded, entryDisk>>

\* process_attachment without its try: the exception reaches
\* process_single_email
AttachmentExceptReraises ==
    /\ pc = "attachment_except"
    /\ pc' = "message_except"
    /\ UNCHANGED <<due, log, disk, drive, jobVars, messageVars, attachmentVars>>

\* lines 114-115: except Exception of process_attachment, after which the
\* function returns to the loop of process_single_email
AttachmentExcept ==
    /\ pc = "attachment_except"
    /\ pc' = "part_loop"
    /\ log' = Append(log, ErrAttachment)
    /\ attachment' = NoAttachment
    /\ file_data' = <<>>
    /\ opened' = FALSE
    /\ uploaded' = "no"
    /\ removed' = "no"
    /\ entryDisk' = <<>>
    /\ UNCHANGED <<due, disk, drive, jobVars, messageVars, media>>

\* process_attachment returns to the loop of process_single_email without
\* having raised
AttachmentReturn ==
    /\ pc = "attachment_return"
    /\ pc' = "part_loop"
    /\ attachment' = NoAttachment
    /\ file_data' = <<>>
    /\ opened' = FALSE
    /\ uploaded' = "no"
    /\ removed' = "no"
    /\ entryDisk' = <<>>
    /\ UNCHANGED <<due, log, disk, drive, jobVars, messageVars, media>>

(* ---------------------------- upload_to_drive -------------------------- *)

\* lines 109, 120-129: the call, and MediaFileUpload opening the local file
UploadToDrive ==
    /\ pc = "upload"
    /\ uploads' = Append(uploads, j)
    /\ IF part.filename \in DOMAIN disk
       THEN /\ media' = [name |-> part.filename, body |-> disk[part.filename]]
            /\ pc' = "drive_create"
       ELSE /\ media' = media
            /\ pc' = "upload_except"
    /\ UNCHANGED <<due, log, disk, drive, jobVars, message, j, fetches, written, raised,
                   attachment, file_data, opened, uploaded, removed, entryDisk>>

\* lines 131-137: files().create().execute() and the log line of the success
DriveCreate ==
    /\ pc = "drive_create"
    /\ \/ /\ pc' = "remove"
          /\ drive' = Append(drive, media)
          /\ log' = Append(log, Uploaded)
          /\ uploaded' = "ok"
          /\ media' = NoMedia
       \/ /\ pc' = "upload_except"
          /\ UNCHANGED <<drive, log, uploaded, media>>
    /\ UNCHANGED <<due, disk, jobVars, messageVars, attachment, file_data, opened,
                   removed, entryDisk>>

\* upload_to_drive logging the error and raising it again
UploadExceptReraises ==
    /\ pc = "upload_except"
    /\ pc' = "attachment_except"
    /\ log' = Append(log, ErrUpload)
    /\ uploaded' = "failed"
    /\ media' = NoMedia
    /\ UNCHANGED <<due, disk, drive, jobVars, messageVars, attachment, file_data, opened,
                   removed, entryDisk>>

\* lines 139-140: except Exception of upload_to_drive
UploadExcept ==
    /\ pc = "upload_except"
    /\ pc' = "remove"
    /\ log' = Append(log, ErrUpload)
    /\ uploaded' = "failed"
    /\ media' = NoMedia
    /\ UNCHANGED <<due, disk, drive, jobVars, messageVars, attachment, file_data, opened,
                   removed, entryDisk>>

(* ---------------------------- specification ---------------------------- *)

Next ==
    \/ Sleep
    \/ RunPending
    \/ Main
    \/ MainCompleted
    \/ MainReturn
    \/ AuthGmail
    \/ AuthDrive
    \/ ListMessages
    \/ MessageLoop
    \/ EmailsExcept
    \/ GetMessage
    \/ PartLoop
    \/ MessageExcept
    \/ MessageReturn
    \/ FetchAttachment
    \/ SaveTemporarily
    \/ CleanUp
    \/ AttachmentExcept
    \/ AttachmentReturn
    \/ UploadToDrive
    \/ DriveCreate
    \/ UploadExcept

Spec == Init /\ [][Next]_vars

\* every call returns or raises: the thread of control keeps moving
FairSpec == Spec /\ WF_vars(Next)

(* ---------------------------- properties ------------------------------- *)

Range(s) == { s[k] : k \in 1..Len(s) }

\* how often x occurs in s
Count(s, x) == Cardinality({ k \in 1..Len(s) : s[k] = x })

\* the name ends in ".pdf" in any mix of upper and lower case
EndsInDotPdf(name) ==
    /\ Len(name) >= 4
    /\ name[Len(name) - 3] = "."
    /\ name[Len(name) - 2] \in {"p", "P"}
    /\ name[Len(name) - 1] \in {"d", "D"}
    /\ name[Len(name)] \in {"f", "F"}

\* the positions, in part order, of the parts of m that are named as a PDF
\* and carry an attachment identifier
RECURSIVE SelectedUpTo(_, _)
SelectedUpTo(m, n) ==
    IF n = 0 THEN <<>>
    ELSE IF EndsInDotPdf(m.parts[n].filename) /\ m.parts[n].attachmentId # None
         THEN Append(SelectedUpTo(m, n - 1), n)
         ELSE SelectedUpTo(m, n - 1)

SelectedParts(m) == SelectedUpTo(m, Len(m.parts))

\* the thread of control is inside process_attachment
InAttachment ==
    pc \in {"process_attachment", "write", "upload", "drive_create",
            "upload_except", "remove", "attachment_except", "attachment_return"}

\* the message at hand was fetched and has no payload, no parts or an empty
\* list of parts
Partless ==
    /\ pc \in {"part_loop", "message_return"} \/ InAttachment
    /\ ~message.hasPayload \/ ~message.hasParts \/ message.parts = <<>>

\* C1: a message whose fetch or attachment fetch raises does not keep the
\* other messages of the search result from being processed: when
\* process_emails returns every message of the result has been requested, in
\* order, and whenever process_single_email returns, whatever happened to the
\* messages before it, every selected part of its message has been requested
\* and every part written in full has had its upload attempt.
C1_MessageIsolation ==
    /\ pc = "emails_return" => requested = messages
    /\ pc = "message_return" =>
          /\ requested = SubSeq(messages, 1, i)
          /\ fetches = SelectedParts(message)
          /\ uploads = written

\* the third of three messages has had its attachments uploaded after the
\* second raised and the first did not
C1_Witness ==
    /\ pc = "message_return"
    /\ Len(messages) = 3
    /\ i = 3
    /\ firstRaised = 2
    /\ ~raised
    /\ uploads # <<>>
    /\ uploads = fetches

C3_JobCompletes ==
    (pc = "auth_gmail") ~> (pc = "completed" /\ log[Len(log)] = Completed)

\* the job completed a run of three messages in which a fetch raised for the
\* second
C3_Witness ==
    /\ pc = "completed"
    /\ Len(messages) = 3
    /\ firstRaised = 2
    /\ log[Len(log)] = Completed

\* C4: when nothing fails while a message is processed, exactly the parts
\* named as a PDF (in any case) that carry an attachment identifier are
\* requested, once each and in part order, the same parts get one upload
\* attempt each in the same order, and the Drive files created carry their
\* names; the messages are requested in the order of the search result.
C4_CleanRun ==
    /\ pc = "emails_return" => requested = messages
    /\ (pc = "message_return" /\ ~raised /\ Range(log) \cap Errors = {}) =>
          /\ requested = SubSeq(messages, 1, i)
          /\ fetches = SelectedParts(message)
          /\ uploads = SelectedParts(message)
          /\ Len(drive) = Len(uploads)
          /\ \A k \in 1..Len(drive) :
                drive[k].name = message.parts[uploads[k]].filename

\* the second message, with two PDF parts of different names, went through
\* without a failure after a first message in which no fetch raised
C4_Witness ==
    /\ pc = "message_return"
    /\ i = 2
    /\ firstRaised = 0
    /\ Range(log) \cap Errors = {}
    /\ uploads = <<1, 2>>
    /\ drive[1].name # drive[2].name

\* C5: once process_emails has logged its error, which it does when the
\* authentication of either service or the search raised, the run is over:
\* the error is logged once, and no message has been requested, no
\* attachment fetched, no file written and no upload attempted.
C5_EarlyEnd ==
    ErrEmails \in Range(log) =>
        /\ pc \in {"emails_return", "completed"}
        /\ SubSeq(log, 1, 2) = <<Starting, ErrEmails>>
        /\ Count(log, ErrEmails) = 1
        /\ Range(log) \subseteq {Starting, ErrEmails, Completed}
        /\ requested = <<>>
        /\ firstRaised = 0
        /\ i = 0
        /\ fetches = <<>>
        /\ written = <<>>
        /\ uploads = <<>>
        /\ drive = <<>>
        /\ ~opened

\* process_emails returns after its handler logged the error
C5_Witness ==
    /\ pc = "emails_return"
    /\ log = <<Starting, ErrEmails>>

\* C6: a part whose name is empty or does not end in ".pdf" (in any case) is
\* never handed to process_attachment: its attachment is not requested, no
\* file of its name is written and nothing is uploaded for it.
C6_OnlyPdf ==
    /\ InAttachment => EndsInDotPdf(part.filename)
    /\ \A k \in Range(fetches) \cup Range(written) \cup Range(uploads) :
          EndsInDotPdf(message.parts[k].filename)
    /\ \A n \in DOMAIN disk : EndsInDotPdf(n)
    /\ \A k \in 1..Len(drive) : EndsInDotPdf(drive[k].name)

\* a message with a non-PDF part and a PDF part is done: only the PDF part
\* was fetched
C6_Witness ==
    /\ pc = "message_return"
    /\ Len(message.parts) = 2
    /\ ~EndsInDotPdf(message.parts[1].filename)
    /\ message.parts[1].filename # <<>>
    /\ message.parts[1].attachmentId # None
    /\ fetches = <<2>>

\* C7: for a fetched message without payload, without parts or with an empty
\* list of parts, process_attachment is never entered, and when
\* process_single_email returns nothing was requested, written or uploaded
\* and no log line was written.
C7_PartlessMessage ==
    (Partless /\ ~raised) =>
        /\ ~InAttachment
        /\ log = <<>>
        /\ fetches = <<>>
        /\ written = <<>>
        /\ uploads = <<>>
        /\ drive = <<>>

\* process_single_email returns for a message whose payload has no parts
C7_Witness ==
    /\ pc = "message_return"
    /\ ~raised
    /\ message.hasPayload
    /\ ~message.hasParts

\* C8: a failure in one selected part stays in that part.  When
\* process_single_email returns, every selected part of the message has been
\* requested and every part written in full has had its upload attempt,
\* whatever failed in the other parts; every upload attempt left one log
\* line, and every part that failed before its upload one error line of
\* process_attachment.  A failed upload is not passed on to
\* process_attachment: os.remove is still called, the handler of
\* process_attachment is entered only when os.remove fails, and until then
\* the last log line is the one of upload_to_drive.
C8_AttachmentIsolation ==
    /\ pc = "message_return" =>
          /\ fetches = SelectedParts(message)
          /\ uploads = written
          /\ Count(log, Uploaded) + Count(log, ErrUpload) = Len(uploads)
          /\ Count(log, ErrAttachment) >= Len(fetches) - Len(uploads)
          /\ Count(log, ErrAttachment) <= Len(fetches)
          /\ ErrMessage \notin Range(log) \/ log = <<ErrMessage>>
    /\ (pc = "attachment_return" /\ uploaded = "failed") =>
          /\ removed = "ok"
          /\ log[Len(log)] = ErrUpload
    /\ (pc = "attachment_except" /\ uploaded = "failed") =>
          /\ removed = "failed"
          /\ log[Len(log)] = ErrUpload

\* the first of two selected parts failed before its upload and the second
\* was uploaded
C8_Witness ==
    /\ pc = "message_return"
    /\ fetches = <<1, 2>>
    /\ uploads = <<2>>
    /\ log = <<ErrAttachment, Uploaded>>

C10_UploadIntegrity ==
    /\ pc \in {"upload", "drive_create", "upload_except"} =>
          /\ fetches # <<>> /\ fetches[Len(fetches)] = j
          /\ attachment.hasData /\ CanDecode(attachment.data)
          /\ opened
          /\ written # <<>> /\ written[Len(written)] = j
          /\ part.filename \in DOMAIN disk
          /\ disk[part.filename] = urlsafe_b64decode(attachment.data)
    /\ pc = "drive_create" =>
          /\ media.name = part.filename
          /\ media.body = urlsafe_b64decode(attachment.data)
    /\ (pc = "remove" /\ uploaded = "ok") =>
          drive[Len(drive)] = [name |-> part.filename,
                               body |-> urlsafe_b64decode(attachment.data)]

\* an upload of the decoded byte is under way for a part whose file name was
\* in the scratch directory, truncated by the failed write of an earlier part,
\* when the call began
C10_Witness ==
    /\ pc = "drive_create"
    /\ part.filename \in DOMAIN entryDisk
    /\ entryDisk[part.filename] = <<>>
    /\ media.body = <<65>>

====
